---- MODULE Spec2Model ----
(***************************************************************************)
(* Model of flowjax's distribution core (src/flowjax/distributions.py)     *)
(* and of the affine bijections (src/flowjax/bijections/affine.py).        *)
(*                                                                         *)
(* The library is purely functional: the state of the model is the         *)
(* distribution object a user holds, the last operation applied to it,     *)
(* the operation's inputs and its outcome.                                 *)
(*                                                                         *)
(* Encodings                                                               *)
(*   scalar   a float, as an exact rational <<n, d>> (d > 0, lowest terms) *)
(*            or one of NaN = <<0,0>>, Inf = <<1,0>>, NInf = <<-1,0>>.     *)
(*   logval   a log-density or log-determinant, as the exact real          *)
(*            lin + ln(lg) - npi * (1/2) ln(2 pi).                         *)
(*   Optional None is <<>>, a present value v is <<v>>.                    *)
(*   array    [shape |-> tuple of naturals, data |-> row-major sequence].  *)
(*   outcome  [err |-> "" or the exception's name, val |-> the result].    *)
(***************************************************************************)
EXTENDS Integers, Sequences, FiniteSets, TLC

VARIABLES dist, op, args, out

vars == <<dist, op, args, out>>

(***************************************************************************)
(* Bounds of the model.                                                    *)
(***************************************************************************)
MaxDepth == 3

MaxSeed == 1

(***************************************************************************)
(* Optional values.                                                        *)
(***************************************************************************)
None == <<>>

Some(v) == <<v>>

IsNone(o) == Len(o) = 0

Get(o) == o[1]

(***************************************************************************)
(* Scalars: floats as exact rationals with the IEEE special values.        *)
(***************************************************************************)
NaN == <<0, 0>>

Inf == <<1, 0>>

NInf == <<-1, 0>>

Abs(n) == IF n < 0 THEN -n ELSE n

Sgn(n) == IF n < 0 THEN -1 ELSE IF n = 0 THEN 0 ELSE 1

RECURSIVE Gcd(_, _)
Gcd(a, b) == IF b = 0 THEN a ELSE Gcd(b, a % b)

\* The rational n/d (d # 0) in lowest terms with a positive denominator.
Rat(n, d) ==
    LET g == Gcd(Abs(n), Abs(d))
        s == Sgn(d)
    IN  <<(s * n) \div g, (s * d) \div g>>

R(n) == <<n, 1>>

IsNaN(a) == a = NaN

IsFinite(a) == a[2] # 0

RNeg(a) == <<-a[1], a[2]>>

RAdd(a, b) ==
    IF IsNaN(a) \/ IsNaN(b) THEN NaN
    ELSE IF ~IsFinite(a) THEN (IF ~IsFinite(b) /\ b # a THEN NaN ELSE a)
    ELSE IF ~IsFinite(b) THEN b
    ELSE Rat(a[1] * b[2] + b[1] * a[2], a[2] * b[2])

RSub(a, b) == RAdd(a, RNeg(b))

RMul(a, b) ==
    IF IsNaN(a) \/ IsNaN(b) THEN NaN
    ELSE IF ~IsFinite(a) \/ ~IsFinite(b)
         THEN (IF a[1] = 0 \/ b[1] = 0 THEN NaN
               ELSE <<Sgn(a[1]) * Sgn(b[1]), 0>>)
    ELSE Rat(a[1] * b[1], a[2] * b[2])

RDiv(a, b) ==
    IF IsNaN(a) \/ IsNaN(b) THEN NaN
    ELSE IF ~IsFinite(a)
         THEN (IF ~IsFinite(b) THEN NaN
               ELSE <<a[1] * (IF b[1] < 0 THEN -1 ELSE 1), 0>>)
    ELSE IF ~IsFinite(b) THEN R(0)
    ELSE IF b[1] = 0 THEN (IF a[1] = 0 THEN NaN ELSE <<Sgn(a[1]), 0>>)
    ELSE Rat(a[1] * b[2], a[2] * b[1])

RAbs(a) == <<Abs(a[1]), a[2]>>

(***************************************************************************)
(* Log values: lin + ln(lg) - npi * (1/2) ln(2 pi), kept symbolic so that  *)
(* sums of logarithms are exact.  A non-finite value is carried by lin.    *)
(***************************************************************************)
LCanon(l) ==
    IF IsFinite(l.lin) THEN l ELSE [lin |-> l.lin, lg |-> R(1), npi |-> 0]

LConst(a) == LCanon([lin |-> a, lg |-> R(1), npi |-> 0])

LZero == LConst(R(0))

LAdd(a, b) ==
    LCanon([lin |-> RAdd(a.lin, b.lin), lg |-> RMul(a.lg, b.lg),
            npi |-> a.npi + b.npi])

LNeg(a) ==
    LCanon([lin |-> RNeg(a.lin), lg |-> RDiv(R(1), a.lg), npi |-> -a.npi])

LSub(a, b) == LAdd(a, LNeg(b))

\* jnp.log of a scalar.
Log(a) ==
    IF IsNaN(a) THEN LConst(NaN)
    ELSE IF ~IsFinite(a) THEN (IF a = Inf THEN LConst(Inf) ELSE LConst(NaN))
    ELSE IF a[1] < 0 THEN LConst(NaN)
    ELSE IF a[1] = 0 THEN LConst(NInf)
    ELSE [lin |-> R(0), lg |-> a, npi |-> 0]

LIsNaN(l) == IsNaN(l.lin)

\* The sum of a sequence of log values (an array's .sum()).
RECURSIVE LSum(_)
LSum(s) == IF Len(s) = 0 THEN LZero ELSE LAdd(s[1], LSum(Tail(s)))

(***************************************************************************)
(* Shapes and arrays.                                                      *)
(***************************************************************************)
RECURSIVE prod(_)
prod(shape) == IF Len(shape) = 0 THEN 1 ELSE shape[1] * prod(Tail(shape))

Max(a, b) == IF a >= b THEN a ELSE b

Arr(shape, data) == [shape |-> shape, data |-> data]

\* The last n entries of a shape, and the shape without them.
Trailing(shape, n) == SubSeq(shape, Len(shape) - n + 1, Len(shape))

Leading(shape, n) == SubSeq(shape, 1, Len(shape) - n)

\* A shape padded on the left with ones to n dimensions.
PadShape(shape, n) ==
    [i \in 1..n |-> IF i <= n - Len(shape) THEN 1 ELSE shape[i - (n - Len(shape))]]

\* numpy broadcasting of two shapes: None when they are incompatible.
BroadcastShapes(s1, s2) ==
    LET n == Max(Len(s1), Len(s2))
        a == PadShape(s1, n)
        b == PadShape(s2, n)
    IN  IF \A i \in 1..n : a[i] = b[i] \/ a[i] = 1 \/ b[i] = 1
        THEN Some([i \in 1..n |-> IF a[i] = 1 THEN b[i] ELSE a[i]])
        ELSE None

\* The index tuple (0-based) of the 0-based row-major position p.
Unravel(p, shape) ==
    [i \in 1..Len(shape) |->
        (p \div prod(SubSeq(shape, i + 1, Len(shape)))) % shape[i]]

RECURSIVE Ravel(_, _)
Ravel(idx, shape) ==
    IF Len(shape) = 0 THEN 0
    ELSE idx[1] * prod(Tail(shape)) + Ravel(Tail(idx), Tail(shape))

\* The position in an array of shape `from` that position p of the broadcast
\* shape `to` reads.
BroadcastPos(p, from, to) ==
    LET n == Len(to)
        k == n - Len(from)
        idx == Unravel(p, to)
    IN  Ravel([i \in 1..Len(from) |-> IF from[i] = 1 THEN 0 ELSE idx[i + k]], from)

\* jnp.broadcast_to on the data of an array.
BroadcastData(a, to) ==
    [p \in 1..prod(to) |-> a.data[BroadcastPos(p - 1, a.shape, to) + 1]]

\* The n-th (0-based) block of `size` consecutive entries.
Block(data, n, size) == SubSeq(data, n * size + 1, (n + 1) * size)

RECURSIVE Concat(_)
Concat(seqs) == IF Len(seqs) = 0 THEN <<>> ELSE seqs[1] \o Concat(Tail(seqs))

(***************************************************************************)
(* Helpers of flowjax.utils and flowjax.wrappers.                          *)
(***************************************************************************)
\* arraylike_to_array: None is not array-like.
arraylike_to_array(a) ==
    IF IsNone(a) THEN [err |-> "TypeError", val |-> None]
    ELSE [err |-> "", val |-> a]

\* merge_cond_shapes: None when all are None, the common shape when the
\* non-None ones agree, an error otherwise.
merge_cond_shapes(shapes) ==
    LET given == SelectSeq(shapes, LAMBDA s : ~IsNone(s))
    IN  IF Len(given) = 0 THEN [err |-> "", val |-> None]
        ELSE IF \A i \in 1..Len(given) : given[i] = given[1]
             THEN [err |-> "", val |-> given[1]]
        ELSE [err |-> "ValueError", val |-> None]

\* BijectionReparam(scale, SoftPlus()): the raw value softplus^-1(scale) is
\* stored and softplus(raw) is read back.
BijectionReparam(s) ==
    IF IsNaN(s) THEN NaN
    ELSE IF s = Inf THEN Inf
    ELSE IF s[1] > 0 THEN s
    ELSE IF s[1] = 0 THEN R(0)
    ELSE NaN

(***************************************************************************)
(* Bijections (src/flowjax/bijections/affine.py) on unbatched inputs.      *)
(* x, y are the data of an array of the bijection's shape; condition is    *)
(* an Optional holding the data of an array of cond_shape.                 *)
(***************************************************************************)
Bijection(kind, shape, cond_shape, loc, scale, module, bijections) ==
    [kind |-> kind, shape |-> shape, cond_shape |-> cond_shape, loc |-> loc,
     scale |-> scale, module |-> module, bijections |-> bijections,
     triangular |-> <<>>, lower |-> TRUE]

\* Affine.__init__: loc and scale are broadcast against each other.
Affine(loc, scale) ==
    LET shape == Get(BroadcastShapes(loc.shape, scale.shape))
        sc == BroadcastData(scale, shape)
    IN  Bijection("Affine", shape, None, BroadcastData(loc, shape),
                  [i \in 1..Len(sc) |-> BijectionReparam(sc[i])], "", <<>>)

Loc(loc) == Bijection("Loc", loc.shape, None, loc.data, <<>>, "", <<>>)

Scale(scale) ==
    Bijection("Scale", scale.shape, None, <<>>,
              [i \in 1..Len(scale.data) |-> BijectionReparam(scale.data[i])],
              "", <<>>)

AdditiveCondition(module, shape, cond_shape) ==
    Bijection("AdditiveCondition", shape, Some(cond_shape), <<>>, <<>>, module, <<>>)

\* Elementwise arithmetic on equally shaped data.
VAdd(x, y) == [i \in 1..Len(x) |-> RAdd(x[i], y[i])]

VSub(x, y) == [i \in 1..Len(x) |-> RSub(x[i], y[i])]

VMul(x, y) == [i \in 1..Len(x) |-> RMul(x[i], y[i])]

VDiv(x, y) == [i \in 1..Len(x) |-> RDiv(x[i], y[i])]

RECURSIVE RSum(_)
RSum(s) == IF Len(s) = 0 THEN R(0) ELSE RAdd(s[1], RSum(Tail(s)))

\* jnp.log(jnp.abs(scale)).sum()
LogAbsSum(scale) == LSum([i \in 1..Len(scale) |-> Log(RAbs(scale[i]))])

\* The callable of an AdditiveCondition: a function of the condition whose
\* result broadcasts against the bijection's shape.
ModuleCall(module, condition, n) ==
    LET c == Get(condition)
        v == IF module = "sum" THEN RSum(c) ELSE RNeg(RSum(c))
    IN  [i \in 1..n |-> v]

Affine_transform(b, x, condition) == VAdd(VMul(x, b.scale), b.loc)

Affine_transform_and_log_det(b, x, condition) ==
    <<VAdd(VMul(x, b.scale), b.loc), LogAbsSum(b.scale)>>

Affine_inverse(b, y, condition) == VDiv(VSub(y, b.loc), b.scale)

\* Faulty variant: the log-determinant is not negated.
Affine_inverse_and_log_det_forward(b, y, condition) ==
    <<VDiv(VSub(y, b.loc), b.scale), LogAbsSum(b.scale)>>

Affine_inverse_and_log_det(b, y, condition) ==
    <<VDiv(VSub(y, b.loc), b.scale), LNeg(LogAbsSum(b.scale))>>

Loc_transform(b, x, condition) == VAdd(x, b.loc)

Loc_transform_and_log_det(b, x, condition) == <<VAdd(x, b.loc), LZero>>

Loc_inverse(b, y, condition) == VSub(y, b.loc)

Loc_inverse_and_log_det(b, y, condition) == <<VSub(y, b.loc), LZero>>

Scale_transform(b, x, condition) == VMul(x, b.scale)

Scale_transform_and_log_det(b, x, condition) ==
    <<VMul(x, b.scale), LogAbsSum(b.scale)>>

Scale_inverse(b, y, condition) == VDiv(y, b.scale)

Scale_inverse_and_log_det(b, y, condition) ==
    <<VDiv(y, b.scale), LNeg(LogAbsSum(b.scale))>>

AdditiveCondition_transform(b, x, condition) ==
    VAdd(x, ModuleCall(b.module, condition, Len(x)))

AdditiveCondition_transform_and_log_det(b, x, condition) ==
    <<AdditiveCondition_transform(b, x, condition), LZero>>

AdditiveCondition_inverse(b, y, condition) ==
    VSub(y, ModuleCall(b.module, condition, Len(y)))

AdditiveCondition_inverse_and_log_det(b, y, condition) ==
    <<AdditiveCondition_inverse(b, y, condition), LZero>>

\* Entry (i, j) of a dim x dim matrix kept row-major.
Entry(m, dim, i, j) == m[(i - 1) * dim + j]

\* TriangularAffine.__init__: the exception raised for arr, "" when none.
TriangularAffine_check(arr) ==
    IF Len(arr.shape) # 2 THEN "ValueError"
    ELSE IF arr.shape[1] # arr.shape[2] THEN "ValueError"
    ELSE ""

\* jnp.diag(diag) + (jnp.tril(arr, k=-1) if lower else jnp.triu(arr, k=1))
_to_triangular(diag, arr, dim, lower) ==
    [p \in 1..(dim * dim) |->
        LET i == ((p - 1) \div dim) + 1
            j == ((p - 1) % dim) + 1
        IN  IF i = j THEN diag[i]
            ELSE IF (lower /\ j < i) \/ (~lower /\ j > i) THEN arr.data[p]
            ELSE R(0)]

\* TriangularAffine.__init__ for a square arr.
TriangularAffine(loc, arr, lower) ==
    LET dim == arr.shape[1]
        diag == [i \in 1..dim |-> BijectionReparam(Entry(arr.data, dim, i, i))]
    IN  [Bijection("TriangularAffine", <<dim>>, None, BroadcastData(loc, <<dim>>),
                   <<>>, "", <<>>)
         EXCEPT !.triangular = _to_triangular(diag, arr, dim, lower),
                !.lower = lower]

\* self.triangular @ x
MatVec(m, x) ==
    [i \in 1..Len(x) |->
        RSum([j \in 1..Len(x) |-> RMul(Entry(m, Len(x), i, j), x[j])])]

\* jnp.diag(self.triangular)
Diag(m, dim) == [i \in 1..dim |-> Entry(m, dim, i, i)]

\* jax.scipy.linalg.solve_triangular(a, b, lower=lower): substitution over
\* the rows in `order`, reading the named triangle of a only.
RECURSIVE solve_triangular_rows(_, _, _, _, _)
solve_triangular_rows(a, b, lower, order, x) ==
    IF Len(order) = 0 THEN x
    ELSE LET i == order[1]
             dim == Len(b)
             known == RSum([j \in 1..dim |->
                              IF (lower /\ j < i) \/ (~lower /\ j > i)
                              THEN RMul(Entry(a, dim, i, j), x[j])
                              ELSE R(0)])
         IN  solve_triangular_rows(a, b, lower, Tail(order),
                 [x EXCEPT ![i] = RDiv(RSub(b[i], known), Entry(a, dim, i, i))])

solve_triangular(a, b, lower) ==
    solve_triangular_rows(a, b, lower,
        [k \in 1..Len(b) |-> IF lower THEN k ELSE Len(b) + 1 - k],
        [k \in 1..Len(b) |-> R(0)])

TriangularAffine_transform(b, x, condition) == VAdd(MatVec(b.triangular, x), b.loc)

TriangularAffine_transform_and_log_det(b, x, condition) ==
    <<VAdd(MatVec(b.triangular, x), b.loc),
      LogAbsSum(Diag(b.triangular, Len(x)))>>

\* Faulty variant: the triangle is always taken to be the lower one.
TriangularAffine_inverse_always_lower(b, y, condition) ==
    solve_triangular(b.triangular, VSub(y, b.loc), TRUE)

TriangularAffine_inverse(b, y, condition) ==
    solve_triangular(b.triangular, VSub(y, b.loc), b.lower)

TriangularAffine_inverse_and_log_det(b, y, condition) ==
    <<solve_triangular(b.triangular, VSub(y, b.loc), b.lower),
      LNeg(LogAbsSum(Diag(b.triangular, Len(y))))>>

(***************************************************************************)
(* Chain (flowjax.bijections.chain) and the dispatch on a bijection's      *)
(* class.                                                                  *)
(***************************************************************************)
RECURSIVE transform(_, _, _)
RECURSIVE inverse(_, _, _)
RECURSIVE transform_and_log_det(_, _, _)
RECURSIVE inverse_and_log_det(_, _, _)

\* Chain.__init__: the children share one shape; cond_shape is merged.
Chain(bijections) ==
    Bijection("Chain", bijections[1].shape,
              merge_cond_shapes([i \in 1..Len(bijections) |-> bijections[i].cond_shape]).val,
              <<>>, <<>>, "", bijections)

\* Chain.merge_chains: the children of nested Chains are spliced inline.
merge_chains(b) ==
    Chain(Concat([i \in 1..Len(b.bijections) |->
                    IF b.bijections[i].kind = "Chain"
                    THEN b.bijections[i].bijections
                    ELSE <<b.bijections[i]>>]))

\* The children applied left to right.
RECURSIVE Chain_transform_steps(_, _, _)
Chain_transform_steps(bs, x, condition) ==
    IF Len(bs) = 0 THEN x
    ELSE Chain_transform_steps(Tail(bs), transform(bs[1], x, condition), condition)

Chain_transform(b, x, condition) == Chain_transform_steps(b.bijections, x, condition)

RECURSIVE Chain_transform_and_log_det_steps(_, _, _)
Chain_transform_and_log_det_steps(bs, xl, condition) ==
    IF Len(bs) = 0 THEN xl
    ELSE LET r == transform_and_log_det(bs[1], xl[1], condition)
         IN  Chain_transform_and_log_det_steps(Tail(bs), <<r[1], LAdd(xl[2], r[2])>>,
                                               condition)

Chain_transform_and_log_det(b, x, condition) ==
    Chain_transform_and_log_det_steps(b.bijections, <<x, LZero>>, condition)

\* The children's inverses applied right to left.
RECURSIVE Chain_inverse_steps(_, _, _)
Chain_inverse_steps(bs, y, condition) ==
    IF Len(bs) = 0 THEN y
    ELSE Chain_inverse_steps(SubSeq(bs, 1, Len(bs) - 1),
                             inverse(bs[Len(bs)], y, condition), condition)

Chain_inverse(b, y, condition) == Chain_inverse_steps(b.bijections, y, condition)

RECURSIVE Chain_inverse_and_log_det_steps(_, _, _)
Chain_inverse_and_log_det_steps(bs, yl, condition) ==
    IF Len(bs) = 0 THEN yl
    ELSE LET r == inverse_and_log_det(bs[Len(bs)], yl[1], condition)
         IN  Chain_inverse_and_log_det_steps(SubSeq(bs, 1, Len(bs) - 1),
                                             <<r[1], LAdd(yl[2], r[2])>>, condition)

Chain_inverse_and_log_det(b, y, condition) ==
    Chain_inverse_and_log_det_steps(b.bijections, <<y, LZero>>, condition)

transform(b, x, condition) ==
    CASE b.kind = "Affine" -> Affine_transform(b, x, condition)
      [] b.kind = "Loc" -> Loc_transform(b, x, condition)
      [] b.kind = "Scale" -> Scale_transform(b, x, condition)
      [] b.kind = "AdditiveCondition" -> AdditiveCondition_transform(b, x, condition)
      [] b.kind = "TriangularAffine" ->
            TriangularAffine_transform(b, x, condition)
      [] b.kind = "Chain" -> Chain_transform(b, x, condition)

inverse(b, y, condition) ==
    CASE b.kind = "Affine" -> Affine_inverse(b, y, condition)
      [] b.kind = "Loc" -> Loc_inverse(b, y, condition)
      [] b.kind = "Scale" -> Scale_inverse(b, y, condition)
      [] b.kind = "AdditiveCondition" -> AdditiveCondition_inverse(b, y, condition)
      [] b.kind = "TriangularAffine" ->
            TriangularAffine_inverse(b, y, condition)
      [] b.kind = "Chain" -> Chain_inverse(b, y, condition)

transform_and_log_det(b, x, condition) ==
    CASE b.kind = "Affine" -> Affine_transform_and_log_det(b, x, condition)
      [] b.kind = "Loc" -> Loc_transform_and_log_det(b, x, condition)
      [] b.kind = "Scale" -> Scale_transform_and_log_det(b, x, condition)
      [] b.kind = "AdditiveCondition" ->
            AdditiveCondition_transform_and_log_det(b, x, condition)
      [] b.kind = "TriangularAffine" ->
            TriangularAffine_transform_and_log_det(b, x, condition)
      [] b.kind = "Chain" -> Chain_transform_and_log_det(b, x, condition)

inverse_and_log_det(b, y, condition) ==
    CASE b.kind = "Affine" -> Affine_inverse_and_log_det(b, y, condition)
      [] b.kind = "Loc" -> Loc_inverse_and_log_det(b, y, condition)
      [] b.kind = "Scale" -> Scale_inverse_and_log_det(b, y, condition)
      [] b.kind = "AdditiveCondition" ->
            AdditiveCondition_inverse_and_log_det(b, y, condition)
      [] b.kind = "TriangularAffine" ->
            TriangularAffine_inverse_and_log_det(b, y, condition)
      [] b.kind = "Chain" -> Chain_inverse_and_log_det(b, y, condition)

(***************************************************************************)
(* Distributions (src/flowjax/distributions.py): the unbatched primitives. *)
(* A distribution is [kind, std_shape, base_dist, bijection]; base_dist    *)
(* and bijection are Optionals, present for a Transformed.                 *)
(***************************************************************************)
RECURSIVE shape(_)
RECURSIVE cond_shape(_)
RECURSIVE _log_prob(_, _, _)
RECURSIVE _sample(_, _, _)
RECURSIVE _sample_and_log_prob(_, _, _)

StandardNormal(shp) ==
    [kind |-> "StandardNormal", std_shape |-> shp, base_dist |-> None,
     bijection |-> None]

\* Transformed.__init__
Transformed(base_dist, bijection) ==
    [kind |-> "Transformed", std_shape |-> <<>>, base_dist |-> Some(base_dist),
     bijection |-> Some(bijection)]

isinstance_AbstractTransformed(d) == d.kind = "Transformed"

\* AbstractTransformed.shape / StandardNormal.shape
shape(d) ==
    IF isinstance_AbstractTransformed(d) THEN shape(Get(d.base_dist)) ELSE d.std_shape

\* AbstractTransformed.cond_shape / StandardNormal.cond_shape
cond_shape(d) ==
    IF isinstance_AbstractTransformed(d)
    THEN merge_cond_shapes(<<Get(d.bijection).cond_shape,
                             cond_shape(Get(d.base_dist))>>).val
    ELSE None

ndim(d) == Len(shape(d))

\* Faulty variant: rejects every pair of conditional components.
check_init_both_conditional(base_dist, bijection) ==
    IF ~IsNone(cond_shape(base_dist)) /\ ~IsNone(bijection.cond_shape)
    THEN "ValueError"
    ELSE ""

\* AbstractTransformed.__check_init__: the exception raised, "" when none.
check_init(base_dist, bijection) ==
    IF /\ ~IsNone(cond_shape(base_dist))
       /\ ~IsNone(bijection.cond_shape)
       /\ cond_shape(base_dist) # bijection.cond_shape
    THEN "ValueError"
    ELSE ""

\* jstats.norm.logpdf(x).sum()
StandardNormal_log_prob(d, x, condition) ==
    LSum([i \in 1..Len(x) |->
            LCanon([lin |-> RNeg(RDiv(RMul(x[i], x[i]), R(2))), lg |-> R(1),
                    npi |-> 1])])

\* jr.normal(key, self.shape): a fixed function of the key's two words.
StandardNormal_sample(d, key, condition) ==
    [j \in 1..prod(d.std_shape) |-> R(((key[1] + 2 * key[2] + j) % 5) - 2)]

AbstractStandardDistribution_sample_and_log_prob(d, key, condition) ==
    LET x == _sample(d, key, condition)
    IN  <<x, _log_prob(d, x, condition)>>

\* Faulty variant: the log-determinant is subtracted.
AbstractTransformed_log_prob_minus(d, x, condition) ==
    LET zl == inverse_and_log_det(Get(d.bijection), x, condition)
        p_z == _log_prob(Get(d.base_dist), zl[1], condition)
    IN  LSub(p_z, zl[2])

AbstractTransformed_log_prob(d, x, condition) ==
    LET zl == inverse_and_log_det(Get(d.bijection), x, condition)
        p_z == _log_prob(Get(d.base_dist), zl[1], condition)
    IN  LAdd(p_z, zl[2])

AbstractTransformed_sample(d, key, condition) ==
    LET base_sample == _sample(Get(d.base_dist), key, condition)
    IN  transform(Get(d.bijection), base_sample, condition)

\* Faulty variant: the forward log-determinant is added.
AbstractTransformed_sample_and_log_prob_plus(d, key, condition) ==
    LET base == _sample_and_log_prob(Get(d.base_dist), key, condition)
        fwd == transform_and_log_det(Get(d.bijection), base[1], condition)
    IN  <<fwd[1], LAdd(base[2], fwd[2])>>

AbstractTransformed_sample_and_log_prob(d, key, condition) ==
    LET base == _sample_and_log_prob(Get(d.base_dist), key, condition)
        fwd == transform_and_log_det(Get(d.bijection), base[1], condition)
    IN  <<fwd[1], LSub(base[2], fwd[2])>>

_log_prob(d, x, condition) ==
    IF isinstance_AbstractTransformed(d)
    THEN AbstractTransformed_log_prob(d, x, condition)
    ELSE StandardNormal_log_prob(d, x, condition)

_sample(d, key, condition) ==
    IF isinstance_AbstractTransformed(d)
    THEN AbstractTransformed_sample(d, key, condition)
    ELSE StandardNormal_sample(d, key, condition)

_sample_and_log_prob(d, key, condition) ==
    IF isinstance_AbstractTransformed(d)
    THEN AbstractTransformed_sample_and_log_prob(d, key, condition)
    ELSE AbstractStandardDistribution_sample_and_log_prob(d, key, condition)

\* AbstractTransformed.merge_transforms
RECURSIVE merge_transforms_collect(_, _)
merge_transforms_collect(base_dist, bijections) ==
    IF isinstance_AbstractTransformed(base_dist)
    THEN merge_transforms_collect(Get(base_dist.base_dist),
                                  Append(bijections, Get(base_dist.bijection)))
    ELSE <<base_dist, bijections>>

reversed(s) == [i \in 1..Len(s) |-> s[Len(s) + 1 - i]]

\* Faulty variant: the collected bijections are not reversed.
merge_transforms_unreversed(d) ==
    IF ~isinstance_AbstractTransformed(Get(d.base_dist)) THEN d
    ELSE LET r == merge_transforms_collect(Get(d.base_dist), <<Get(d.bijection)>>)
         IN  Transformed(r[1], merge_chains(Chain(r[2])))

\* Faulty variant: the receiver's own bijection is not collected.
merge_transforms_without_own(d) ==
    IF ~isinstance_AbstractTransformed(Get(d.base_dist)) THEN d
    ELSE LET r == merge_transforms_collect(Get(d.base_dist), <<>>)
         IN  Transformed(r[1], merge_chains(Chain(reversed(r[2]))))

\* Faulty variant: a new Transformed over a Chain is built in every case.
merge_transforms_always_rebuilds(d) ==
    LET r == merge_transforms_collect(Get(d.base_dist), <<Get(d.bijection)>>)
    IN  Transformed(r[1], merge_chains(Chain(reversed(r[2]))))

\* merge_transforms returns the receiver itself: `return self`.
merge_transforms_returns_self(d) == ~isinstance_AbstractTransformed(Get(d.base_dist))

merge_transforms(d) ==
    IF ~isinstance_AbstractTransformed(Get(d.base_dist)) THEN d
    ELSE LET r == merge_transforms_collect(Get(d.base_dist), <<Get(d.bijection)>>)
             bijection == merge_chains(Chain(reversed(r[2])))
         IN  Transformed(r[1], bijection)

(***************************************************************************)
(* The public, batched operations of AbstractDistribution.                 *)
(* Their outcome is [err, val, keys, traced, used]:                        *)
(*   keys    Optional: the array _get_sample_keys returned;                *)
(*   traced  the calls of the unbatched primitive made by the vectorizing  *)
(*           map, each with the core shapes of its checked arguments;      *)
(*   used    per batch position, the arguments handed to the primitive:    *)
(*           first (the key or x) and condition.                           *)
(***************************************************************************)
Outcome(err, val, keys, traced, used) ==
    [err |-> err, val |-> val, keys |-> keys, traced |-> traced, used |-> used,
     deferred |-> ""]

Raise(err) == Outcome(err, None, None, <<>>, <<>>)

\* Faulty variant: a condition given to an unconditional distribution is
\* dropped.
_argcheck_and_cast_condition_lenient(d, condition) ==
    IF IsNone(cond_shape(d)) THEN [err |-> "", val |-> None]
    ELSE arraylike_to_array(condition)

\* AbstractDistribution._argcheck_and_cast_condition
_argcheck_and_cast_condition(d, condition) ==
    IF IsNone(cond_shape(d))
    THEN (IF ~IsNone(condition) THEN [err |-> "TypeError", val |-> None]
          ELSE [err |-> "", val |-> None])
    ELSE arraylike_to_array(condition)

\* jax.random.PRNGKey(seed): the two words of a key.
PRNGKey(seed) == <<0, seed>>

\* An injective pairing of naturals, standing for the threefry hash.
Pair(a, b) == ((a + b) * (a + b + 1)) \div 2 + b

\* jax.random.split(key, num): num new keys, as the rows of a (num, 2) array.
\* With jax_threefry_partitionable a row depends on the key and its index
\* only; without, on num as well.
split(key, num, partitionable) ==
    LET h == Pair(Pair(key[1], key[2]), IF partitionable THEN 0 ELSE num)
    IN  Arr(<<num, 2>>,
            Concat([i \in 1..num |-> <<Pair(Pair(h, i), 0), Pair(Pair(h, i), 1)>>]))

\* jnp.reshape: the sizes must agree.
reshape(a, shp) ==
    IF prod(a.shape) # prod(shp) THEN [err |-> "TypeError", val |-> None]
    ELSE [err |-> "", val |-> Arr(shp, a.data)]

\* condition.shape[: -self.cond_ndim or None]
leading_cond_shape(d, condition) ==
    IF ~IsNone(cond_shape(d))
    THEN SubSeq(Get(condition).shape, 1,
                Max(0, Len(Get(condition).shape) - Len(Get(cond_shape(d)))))
    ELSE <<>>

\* Faulty variant: the condition's batch shape is left out of key_shape.
_get_sample_keys_no_cond_batch(d, key, sample_shape, condition, partitionable) ==
    LET key_size == Max(1, prod(sample_shape))
    IN  reshape(split(key, key_size, partitionable), sample_shape \o <<2>>)

\* AbstractDistribution._get_sample_keys
_get_sample_keys(d, key, sample_shape, condition, partitionable) ==
    LET key_shape == sample_shape \o leading_cond_shape(d, condition)
        key_size == Max(1, prod(key_shape))
    IN  reshape(split(key, key_size, partitionable), key_shape \o <<2>>)

\* The unvectorised input and output core shapes of _vectorize.
in_shapes(d, method) ==
    LET maybe_cond == IF IsNone(cond_shape(d)) THEN <<>> ELSE <<Get(cond_shape(d))>>
    IN  IF method = "_log_prob" THEN <<shape(d)>> \o maybe_cond
        ELSE <<<<2>>>> \o maybe_cond

out_shapes(d, method) ==
    CASE method = "_sample_and_log_prob" -> <<shape(d), <<>>>>
      [] method = "_sample" -> <<shape(d)>>
      [] method = "_log_prob" -> <<<<>>>>

\* The argument positions (0-based) excluded from vectorization.
excluded(d) == IF IsNone(cond_shape(d)) THEN {1} ELSE {}

\* Faulty variant: no argument's shape is rejected.
_check_shapes_accept_all(ins, arg_shapes) == ""

\* _check_shapes._wrapper: the exception raised for the arguments' shapes.
_check_shapes(ins, arg_shapes) ==
    IF \E i \in 1..Len(ins) : i <= Len(arg_shapes) /\ arg_shapes[i] # ins[i]
    THEN "ValueError"
    ELSE ""

\* jnp.vectorize parses the signature "(2),(3)->(2)": every number is the
\* NAME of a core dimension, bound to the size found in the arguments.
vectorize_dims_error(core_dims, arrs) ==
    IF \E i \in 1..Len(arrs) : Len(arrs[i].shape) < Len(core_dims[i])
    THEN "ValueError"
    ELSE IF \E i, j \in 1..Len(arrs) :
              \E a \in 1..Len(core_dims[i]), b \in 1..Len(core_dims[j]) :
                 /\ core_dims[i][a] = core_dims[j][b]
                 /\ Trailing(arrs[i].shape, Len(core_dims[i]))[a]
                      # Trailing(arrs[j].shape, Len(core_dims[j]))[b]
    THEN "ValueError"
    ELSE ""

\* The broadcast of the arguments' loop (batch) shapes: None when incompatible.
RECURSIVE vectorize_loop_shape(_, _)
vectorize_loop_shape(core_dims, arrs) ==
    IF Len(arrs) = 0 THEN Some(<<>>)
    ELSE LET rest == vectorize_loop_shape(Tail(core_dims), Tail(arrs))
         IN  IF IsNone(rest) THEN None
             ELSE BroadcastShapes(Leading(arrs[1].shape, Len(core_dims[1])), Get(rest))

\* The unbatched primitive named by `method`.
call_method(d, method, a, condition) ==
    CASE method = "_log_prob" -> _log_prob(d, a, condition)
      [] method = "_sample" -> _sample(d, a, condition)
      [] method = "_sample_and_log_prob" -> _sample_and_log_prob(d, a, condition)

\* The core block of array a read at position p of the loop shape.
core_at(a, core, loop, p) ==
    Block(a.data, BroadcastPos(p, Leading(a.shape, Len(core)), loop),
          prod(Trailing(a.shape, Len(core))))

\* The results of the primitive at the n batch positions, stacked into the
\* output arrays.
vectorize_stack(d, method, loop, res) ==
    CASE method = "_log_prob" -> Arr(loop, res)
      [] method = "_sample" -> Arr(loop \o shape(d), Concat(res))
      [] method = "_sample_and_log_prob" ->
            <<Arr(loop \o shape(d), Concat([p \in 1..Len(res) |-> res[p][1]])),
              Arr(loop, [p \in 1..Len(res) |-> res[p][2]])>>

\* Faulty variant: for an unconditional distribution the first argument is
\* handed over whole instead of being mapped over.
vectorize_args_first_whole(d, method, ins, arg0, condition, loop, p) ==
    [first |-> IF 1 \in excluded(d) THEN arg0.data
               ELSE core_at(arg0, ins[1], loop, p - 1),
     condition |-> IF 1 \in excluded(d) THEN condition
                   ELSE Some(core_at(Get(condition), ins[2], loop, p - 1))]

\* The arguments the primitive receives at position p (1-based) of the loop.
vectorize_args(d, method, ins, arg0, condition, loop, p) ==
    [first |-> core_at(arg0, ins[1], loop, p - 1),
     condition |-> IF 1 \in excluded(d) THEN condition
                   ELSE Some(core_at(Get(condition), ins[2], loop, p - 1))]

unspecified(method) ==
    CASE method = "_log_prob" -> LConst(NaN)
      [] method = "_sample" -> <<>>
      [] method = "_sample_and_log_prob" -> <<<<>>, LConst(NaN)>>

\* The vectorizing map over the loop shape, once the shapes are accepted.
\* Outside its declared core shapes a primitive's result is unspecified.
vectorize_map(d, method, loop, used, declared) ==
    Outcome("",
            vectorize_stack(d, method, loop,
                [p \in 1..Len(used) |->
                    IF declared
                    THEN call_method(d, method, used[p].first, used[p].condition)
                    ELSE unspecified(method)]),
            None, <<>>, used)

vectorize_checked(d, method, ins, arg0, condition, core_shapes, loop) ==
    IF _check_shapes(ins, core_shapes) # "" THEN Raise("ValueError")
    ELSE [vectorize_map(d, method, loop,
                        [p \in 1..prod(loop) |->
                            vectorize_args(d, method, ins, arg0, condition, loop, p)],
                        core_shapes = ins)
          EXCEPT !.traced = <<[method |-> method, shapes |-> core_shapes]>>]

vectorize_call(d, method, ins, arrs, arg0, condition, loop_opt) ==
    IF vectorize_dims_error(ins, arrs) # "" THEN Raise("ValueError")
    ELSE IF IsNone(loop_opt) THEN Raise("ValueError")
    ELSE vectorize_checked(d, method, ins, arg0, condition,
             [i \in 1..Len(arrs) |-> Trailing(arrs[i].shape, Len(ins[i]))],
             Get(loop_opt))

\* AbstractDistribution._vectorize(method)(arg0, condition)
vectorize_with(d, method, ins, arrs, arg0, condition) ==
    vectorize_call(d, method, ins, arrs, arg0, condition,
                   vectorize_loop_shape(ins, arrs))

_vectorize(d, method, arg0, condition) ==
    vectorize_with(d, method, in_shapes(d, method),
                   IF 1 \in excluded(d) THEN <<arg0>> ELSE <<arg0, Get(condition)>>,
                   arg0, condition)

\* Faulty variant: NaN is passed through.
nan_to_neginf_identity(lps) == lps

\* jnp.where(jnp.isnan(lps), -jnp.inf, lps)
nan_to_neginf(lps) ==
    Arr(lps.shape,
        [p \in 1..Len(lps.data) |->
            IF LIsNaN(lps.data[p]) THEN LConst(NInf) ELSE lps.data[p]])

log_prob_return(r) ==
    IF r.err # "" THEN r ELSE [r EXCEPT !.val = nan_to_neginf(@)]

log_prob_cast(d, x, c) ==
    IF c.err # "" THEN Raise(c.err)
    ELSE log_prob_return(_vectorize(d, "_log_prob", x, c.val))

\* AbstractDistribution.log_prob
log_prob(d, x, condition) ==
    log_prob_cast(d, x, _argcheck_and_cast_condition(d, condition))

sample_keys(d, method, c, keys) ==
    IF keys.err # "" THEN Raise(keys.err)
    ELSE [_vectorize(d, method, keys.val, c.val) EXCEPT !.keys = Some(keys.val)]

sample_cast(d, method, key, sample_shape, c, partitionable) ==
    IF c.err # "" THEN Raise(c.err)
    ELSE sample_keys(d, method, c,
                     _get_sample_keys(d, key, sample_shape, c.val, partitionable))

\* AbstractDistribution.sample and AbstractDistribution.sample_and_log_prob
sample_with(d, method, key, sample_shape, condition, partitionable) ==
    sample_cast(d, method, key, sample_shape,
                _argcheck_and_cast_condition(d, condition), partitionable)

sample(d, key, sample_shape, condition, partitionable) ==
    sample_with(d, "_sample", key, sample_shape, condition, partitionable)

sample_and_log_prob(d, key, sample_shape, condition, partitionable) ==
    sample_with(d, "_sample_and_log_prob", key, sample_shape, condition, partitionable)

\* a >= b on floats: false when either is NaN.
RGe(a, b) ==
    IF IsNaN(a) \/ IsNaN(b) THEN FALSE
    ELSE IF a = b \/ a = Inf \/ b = NInf THEN TRUE
    ELSE IF a = NInf \/ b = Inf THEN FALSE
    ELSE a[1] * b[2] >= b[1] * a[2]

_StandardUniform(shp) ==
    [kind |-> "_StandardUniform", std_shape |-> shp, base_dist |-> None,
     bijection |-> None]

\* jnp.all(maxval >= minval), the operands broadcast against each other.
Uniform_all_ge(minval, maxval) ==
    LET shp == Get(BroadcastShapes(minval.shape, maxval.shape))
    IN  \A i \in 1..prod(shp) :
            RGe(BroadcastData(maxval, shp)[i], BroadcastData(minval, shp)[i])

\* Faulty variant: a failed check is never raised.
checkify_check_silent(pred, mode) == [err |-> "", deferred |-> ""]

\* checkify.check(pred, msg), by the mode the constructor runs in: called
\* eagerly it raises when pred is false; traced by jax.jit without
\* checkify.checkify it cannot be staged and raises; inside
\* checkify.checkify the failure is recorded in the error value the
\* transformed function returns and execution goes on.
checkify_check(pred, mode) ==
    CASE mode = "eager" ->
            [err |-> IF pred THEN "" ELSE "JaxRuntimeError", deferred |-> ""]
      [] mode = "jit" -> [err |-> "ValueError", deferred |-> ""]
      [] mode = "checkify" ->
            [err |-> "", deferred |-> IF pred THEN "" ELSE "JaxRuntimeError"]

\* The base distribution and the bijection Uniform.__init__ builds.
Uniform_build(minval, maxval, shp) ==
    Transformed(_StandardUniform(shp),
                Affine(minval, Arr(shp, VSub(BroadcastData(maxval, shp),
                                             BroadcastData(minval, shp)))))

Uniform_built(chk, minval, maxval, shp) ==
    IF chk.err # "" THEN Raise(chk.err)
    ELSE [Outcome("", Some(Uniform_build(minval, maxval, shp)), None,
                  <<[method |-> "_StandardUniform", shapes |-> <<shp>>],
                    [method |-> "Affine", shapes |-> <<minval.shape, shp>>]>>,
                  <<>>)
          EXCEPT !.deferred = chk.deferred]

\* Uniform.__init__
Uniform(minval, maxval, mode) ==
    Uniform_built(checkify_check(Uniform_all_ge(minval, maxval), mode),
                  minval, maxval,
                  Get(BroadcastShapes(minval.shape, maxval.shape)))

\* Reading self.<name> in __init__: an AttributeError unless the attribute
\* has been assigned.
getattr_self(assigned, name) == IF name \in assigned THEN "" ELSE "AttributeError"

\* The object SpecializeCondition.__init__ leaves when it returns.
SpecializeCondition_object(d, condition, stop_gradient) ==
    [kind |-> "SpecializeCondition", dist |-> d, _condition |-> condition,
     shape |-> shape(d), cond_shape |-> None, stop_gradient |-> stop_gradient]

SpecializeCondition_checked(d, c, stop_gradient) ==
    IF c.err # "" THEN Raise(c.err)
    ELSE IF getattr_self({}, "dist") # "" THEN Raise(getattr_self({}, "dist"))
    ELSE IF cond_shape(d) # Some(Get(c.val).shape) THEN Raise("ValueError")
    ELSE Outcome("", Some(SpecializeCondition_object(d, Get(c.val), stop_gradient)),
                 None, <<>>, <<>>)

\* SpecializeCondition.__init__: self.dist is read before it is assigned.
SpecializeCondition(d, condition, stop_gradient) ==
    SpecializeCondition_checked(d, arraylike_to_array(condition), stop_gradient)

\* SpecializeCondition.condition: stop_gradient leaves the values as they are.
SpecializeCondition_condition(s) == Some(s._condition.data)

SpecializeCondition_log_prob(s, x, condition) ==
    _log_prob(s.dist, x, SpecializeCondition_condition(s))

SpecializeCondition_sample(s, key, condition) ==
    _sample(s.dist, key, SpecializeCondition_condition(s))

SpecializeCondition_sample_and_log_prob(s, key, condition) ==
    _sample_and_log_prob(s.dist, key, SpecializeCondition_condition(s))

(***************************************************************************)
(* Inputs.                                                                 *)
(***************************************************************************)
MaxPublicDepth == 1

MaxBatch == 2

EventShapes == {<<>>, <<2>>}

CondShapes == {<<>>, <<2>>}

\* n entries cycling through a pattern.
Fill(pattern, n) == [i \in 1..n |-> pattern[((i - 1) % Len(pattern)) + 1]]

Full(shp, pattern) == Arr(shp, Fill(pattern, prod(shp)))

\* The bijections a Transformed of event shape shp is built from.
BijectionsFor(shp) ==
    { Affine(Arr(<<>>, <<R(1)>>), Full(shp, <<R(2), R(3)>>)),
      AdditiveCondition("sum", shp, <<>>),
      Chain(<<Scale(Full(shp, <<R(3)>>)), AdditiveCondition("neg", shp, <<2>>)>>),
      Loc(Full(shp, <<R(1), R(-1)>>)) }

RECURSIVE Depth(_)
Depth(d) == IF isinstance_AbstractTransformed(d) THEN 1 + Depth(Get(d.base_dist)) ELSE 0

Seeds == 0..MaxSeed

XPatterns == {<<R(1), R(-2)>>, <<Rat(1, 2), R(0)>>, <<NaN, R(1)>>}

CondPatterns == {<<R(1), R(2)>>, <<R(-1)>>}

\* The matrices offered to TriangularAffine: the first is square, with
\* entries in both triangles; the second is not square.
TriangularArrs ==
    {Arr(<<2, 2>>, <<R(2), R(5), R(3), R(4)>>),
     Arr(<<2, 3>>, <<R(1), R(0), R(0), R(0), R(1), R(0)>>)}

\* The bijections of affine.py of shape shp that the bijection operations
\* are applied to.
AffineBijections(shp) ==
    {Affine(Arr(<<>>, <<R(1)>>), Full(shp, <<R(2), R(3)>>)),
     Loc(Full(shp, <<R(1), R(-1)>>)),
     Scale(Full(shp, <<R(3), Rat(1, 2)>>)),
     AdditiveCondition("sum", shp, <<>>),
     AdditiveCondition("neg", shp, <<2>>)}
    \cup (IF shp = <<2>>
          THEN {TriangularAffine(Arr(<<>>, <<R(1)>>), arr, lower) :
                   arr \in {a \in TriangularArrs : TriangularAffine_check(a) = ""},
                   lower \in BOOLEAN}
          ELSE {})

\* Finite points of shape shp, and the conditions a bijection accepts.
BijectionPoints(shp) ==
    {Fill(pat, prod(shp)) : pat \in {<<R(1), R(-2)>>, <<Rat(1, 2), R(0)>>}}

BijectionConds(b) ==
    IF IsNone(b.cond_shape) THEN {None}
    ELSE {Some(Fill(pat, prod(Get(b.cond_shape)))) : pat \in CondPatterns}

\* The minval and maxval arguments of Uniform, and the modes its constructor
\* runs in.
UniformBounds ==
    {Arr(<<>>, <<R(0)>>), Arr(<<>>, <<R(2)>>),
     Arr(<<2>>, <<R(0), R(3)>>), Arr(<<2>>, <<R(1), R(1)>>)}

ExecutionModes == {"eager", "jit", "checkify"}

\* Unbatched inputs of the primitives: x of the event shape, a condition of
\* cond_shape (None for an unconditional distribution).
EventData(d) == {Fill(pat, prod(shape(d))) : pat \in XPatterns}

PrimConds(d) ==
    IF IsNone(cond_shape(d)) THEN {None}
    ELSE {Some(Fill(pat, prod(Get(cond_shape(d))))) : pat \in CondPatterns}

\* Batched inputs of the public operations, valid and invalid.
BatchShapes == {<<>>} \cup {<<n>> : n \in 0..MaxBatch}

WrongShapes(shp) ==
    IF Len(shp) = 0 THEN {}
    ELSE {Leading(shp, 1), [shp EXCEPT ![Len(shp)] = @ + 1],
          [shp EXCEPT ![Len(shp)] = 1]}

XArrays(d) ==
    {Full(s, pat) : s \in {b \o shape(d) : b \in BatchShapes} \cup WrongShapes(shape(d)),
                    pat \in {<<R(1), R(-2)>>, <<NaN, R(1)>>}}

CondArrays(d) ==
    {None} \cup
    {Some(Full(s, <<R(1), R(2)>>)) :
        s \in IF IsNone(cond_shape(d)) THEN {<<>>, <<2>>}
              ELSE {b \o Get(cond_shape(d)) : b \in BatchShapes}
                   \cup WrongShapes(Get(cond_shape(d)))}

(***************************************************************************)
(* The state machine: a user constructs a distribution and applies the     *)
(* operations to it.                                                       *)
(***************************************************************************)
Ok(val) == Outcome("", val, None, <<>>, <<>>)

Init ==
    /\ dist \in {StandardNormal(shp) : shp \in EventShapes}
    /\ op = "StandardNormal"
    /\ args = [shape |-> dist.std_shape]
    /\ out = Ok(None)

\* Transformed(dist, bijection): __init__ then __check_init__.
NewTransformed ==
    /\ op \in {"StandardNormal", "Transformed"}
    /\ Depth(dist) < MaxDepth
    /\ \E bijection \in BijectionsFor(shape(dist)) :
          LET err == check_init(dist, bijection)
          IN  /\ op' = "Transformed"
              /\ args' = [base_dist |-> dist, bijection |-> bijection]
              /\ dist' = IF err = "" THEN Transformed(dist, bijection) ELSE dist
              /\ out' = IF err = "" THEN Ok(None) ELSE Raise(err)

\* The user holds a constructed object.  The operations below are pure (they
\* leave dist as it is), so applying them to the object right after its
\* construction reaches every state that applying them in sequence reaches.
Constructed == op \in {"StandardNormal", "Transformed"}

LogProbPrim ==
    /\ Constructed
    /\ \E x \in EventData(dist), condition \in PrimConds(dist) :
          /\ op' = "_log_prob"
          /\ args' = [x |-> x, condition |-> condition]
          /\ out' = Ok(_log_prob(dist, x, condition))
          /\ UNCHANGED dist

SamplePrim ==
    /\ Constructed
    /\ \E seed \in Seeds, condition \in PrimConds(dist) :
          /\ op' = "_sample"
          /\ args' = [key |-> PRNGKey(seed), condition |-> condition]
          /\ out' = Ok(_sample(dist, PRNGKey(seed), condition))
          /\ UNCHANGED dist

SampleAndLogProbPrim ==
    /\ Constructed
    /\ \E seed \in Seeds, condition \in PrimConds(dist) :
          /\ op' = "_sample_and_log_prob"
          /\ args' = [key |-> PRNGKey(seed), condition |-> condition]
          /\ out' = Ok(_sample_and_log_prob(dist, PRNGKey(seed), condition))
          /\ UNCHANGED dist

MergeTransforms ==
    /\ Constructed
    /\ isinstance_AbstractTransformed(dist)
    /\ op' = "merge_transforms"
    /\ args' = [self |-> dist]
    /\ out' = Ok(merge_transforms(dist))
    /\ UNCHANGED dist

LogProb ==
    /\ Constructed
    /\ Depth(dist) <= MaxPublicDepth
    /\ \E x \in XArrays(dist), condition \in CondArrays(dist) :
          /\ op' = "log_prob"
          /\ args' = [x |-> x, condition |-> condition]
          /\ out' = log_prob(dist, x, condition)
          /\ UNCHANGED dist

Sample ==
    /\ Constructed
    /\ Depth(dist) <= MaxPublicDepth
    /\ \E seed \in Seeds, sample_shape \in BatchShapes,
          condition \in CondArrays(dist), partitionable \in BOOLEAN :
          /\ op' = "sample"
          /\ args' = [key |-> PRNGKey(seed), sample_shape |-> sample_shape,
                      condition |-> condition, partitionable |-> partitionable]
          /\ out' = sample(dist, PRNGKey(seed), sample_shape, condition, partitionable)
          /\ UNCHANGED dist

SampleAndLogProb ==
    /\ Constructed
    /\ Depth(dist) <= MaxPublicDepth
    /\ \E seed \in Seeds, sample_shape \in BatchShapes,
          condition \in CondArrays(dist), partitionable \in BOOLEAN :
          /\ op' = "sample_and_log_prob"
          /\ args' = [key |-> PRNGKey(seed), sample_shape |-> sample_shape,
                      condition |-> condition, partitionable |-> partitionable]
          /\ out' = sample_and_log_prob(dist, PRNGKey(seed), sample_shape, condition,
                                        partitionable)
          /\ UNCHANGED dist

\* The operations of a bijection of the event shape, on unbatched arrays.
BijectionTransform ==
    /\ op = "StandardNormal"
    /\ \E b \in AffineBijections(shape(dist)) :
          \E x \in BijectionPoints(b.shape), condition \in BijectionConds(b) :
             /\ op' = "transform"
             /\ args' = [bijection |-> b, x |-> x, condition |-> condition]
             /\ out' = Ok(transform(b, x, condition))
             /\ UNCHANGED dist

BijectionInverse ==
    /\ op = "StandardNormal"
    /\ \E b \in AffineBijections(shape(dist)) :
          \E y \in BijectionPoints(b.shape), condition \in BijectionConds(b) :
             /\ op' = "inverse"
             /\ args' = [bijection |-> b, y |-> y, condition |-> condition]
             /\ out' = Ok(inverse(b, y, condition))
             /\ UNCHANGED dist

BijectionTransformAndLogDet ==
    /\ op = "StandardNormal"
    /\ \E b \in AffineBijections(shape(dist)) :
          \E x \in BijectionPoints(b.shape), condition \in BijectionConds(b) :
             /\ op' = "transform_and_log_det"
             /\ args' = [bijection |-> b, x |-> x, condition |-> condition]
             /\ out' = Ok(transform_and_log_det(b, x, condition))
             /\ UNCHANGED dist

BijectionInverseAndLogDet ==
    /\ op = "StandardNormal"
    /\ \E b \in AffineBijections(shape(dist)) :
          \E y \in BijectionPoints(b.shape), condition \in BijectionConds(b) :
             /\ op' = "inverse_and_log_det"
             /\ args' = [bijection |-> b, y |-> y, condition |-> condition]
             /\ out' = Ok(inverse_and_log_det(b, y, condition))
             /\ UNCHANGED dist

\* Uniform(minval, maxval)
NewUniform ==
    /\ op = "StandardNormal"
    /\ \E minval \in UniformBounds, maxval \in UniformBounds, mode \in ExecutionModes :
          /\ op' = "Uniform"
          /\ args' = [minval |-> minval, maxval |-> maxval, mode |-> mode]
          /\ out' = Uniform(minval, maxval, mode)
          /\ UNCHANGED dist

\* SpecializeCondition(dist, condition, stop_gradient) of a conditional
\* distribution.
NewSpecializeCondition ==
    /\ Constructed
    /\ ~IsNone(cond_shape(dist))
    /\ Depth(dist) <= MaxPublicDepth
    /\ \E shp \in {<<>>, <<2>>, <<3>>}, stop_gradient \in BOOLEAN :
          /\ op' = "SpecializeCondition"
          /\ args' = [dist |-> dist, condition |-> Some(Full(shp, <<R(1), R(2)>>)),
                      stop_gradient |-> stop_gradient]
          /\ out' = SpecializeCondition(dist, Some(Full(shp, <<R(1), R(2)>>)),
                                        stop_gradient)
          /\ UNCHANGED dist

\* The sampling call just made is made again with the same arguments.
Repeat ==
    /\ op \in {"sample", "sample_and_log_prob"}
    /\ out' = sample_with(dist, IF op = "sample" THEN "_sample" ELSE "_sample_and_log_prob",
                          args.key, args.sample_shape, args.condition,
                          args.partitionable)
    /\ UNCHANGED <<dist, op, args>>

Next ==
    \/ NewTransformed
    \/ LogProbPrim
    \/ SamplePrim
    \/ SampleAndLogProbPrim
    \/ MergeTransforms
    \/ LogProb
    \/ Sample
    \/ SampleAndLogProb
    \/ Repeat
    \/ BijectionTransform
    \/ BijectionInverse
    \/ BijectionTransformAndLogDet
    \/ BijectionInverseAndLogDet
    \/ NewUniform
    \/ NewSpecializeCondition

Spec == Init /\ [][Next]_vars

(***************************************************************************)
(* Properties.                                                             *)
(***************************************************************************)
Nested(d) ==
    isinstance_AbstractTransformed(d)
    /\ isinstance_AbstractTransformed(Get(d.base_dist))

\* C1: the _log_prob of a transformed distribution is the base
\* distribution's _log_prob at z plus logdet, where (z, logdet) is the
\* bijection's inverse_and_log_det at x, and the bijection and the base
\* distribution both receive the caller's condition.
C1_ChangeOfVariables ==
    (op = "_log_prob" /\ isinstance_AbstractTransformed(dist)) =>
        LET zl == inverse_and_log_det(Get(dist.bijection), args.x, args.condition)
        IN  out.val = LAdd(_log_prob(Get(dist.base_dist), zl[1], args.condition), zl[2])

C1_Witness ==
    /\ op = "_log_prob"
    /\ Nested(dist)
    /\ ~IsNone(args.condition)
    /\ IsFinite(out.val.lin)
    /\ out.val.lg # R(1)

\* C2: _sample_and_log_prob returns (s, lp) with s the result of _sample and
\* lp the result of _log_prob at s, for the same key and condition; the
\* public sample_and_log_prob returns (s, lp) with s the result of sample
\* and lp the result of log_prob at s, and fails exactly when sample fails.
C2_SampleLogProbConsistent ==
    /\ op = "_sample_and_log_prob" =>
          /\ out.val[1] = _sample(dist, args.key, args.condition)
          /\ out.val[2] = _log_prob(dist, out.val[1], args.condition)
    /\ op = "sample_and_log_prob" =>
          /\ out.err = sample(dist, args.key, args.sample_shape, args.condition,
                              args.partitionable).err
          /\ out.err = "" =>
                /\ out.val[1] = sample(dist, args.key, args.sample_shape,
                                       args.condition, args.partitionable).val
                /\ log_prob(dist, out.val[1], args.condition).err = ""
                /\ out.val[2] = log_prob(dist, out.val[1], args.condition).val

C2_Witness ==
    /\ op = "sample_and_log_prob"
    /\ out.err = ""
    /\ isinstance_AbstractTransformed(dist)
    /\ ~IsNone(args.condition)
    /\ Len(out.val[2].data) >= 2
    /\ \E p \in 1..Len(out.val[2].data) : out.val[2].data[p].lg # R(1)

\* The bijections of the nested layers, the innermost layer's first.
RECURSIVE LayersInnerFirst(_)
LayersInnerFirst(d) ==
    IF isinstance_AbstractTransformed(d)
    THEN Append(LayersInnerFirst(Get(d.base_dist)), Get(d.bijection))
    ELSE <<>>

RECURSIVE InnermostBase(_)
InnermostBase(d) ==
    IF isinstance_AbstractTransformed(d) THEN InnermostBase(Get(d.base_dist)) ELSE d

\* A list of bijections with the children of every Chain in their place.
RECURSIVE Spliced(_)
Spliced(bs) ==
    IF Len(bs) = 0 THEN <<>>
    ELSE (IF bs[1].kind = "Chain" THEN bs[1].bijections ELSE <<bs[1]>>)
         \o Spliced(Tail(bs))

\* C3: merge_transforms of a distribution nested to depth n >= 1 returns a
\* Transformed whose base is the innermost distribution that is not
\* transformed and whose bijection is a Chain of the layers' bijections in
\* application order, innermost first and the receiver's own last: n + 1
\* entries when none of them is a Chain.
C3_MergeStructure ==
    (op = "merge_transforms" /\ Nested(dist)) =>
        LET layers == LayersInnerFirst(dist)
            merged == out.val
        IN  /\ out.err = ""
            /\ isinstance_AbstractTransformed(merged)
            /\ Get(merged.base_dist) = InnermostBase(dist)
            /\ ~isinstance_AbstractTransformed(Get(merged.base_dist))
            /\ Get(merged.bijection).kind = "Chain"
            /\ Get(merged.bijection).bijections = Spliced(layers)
            /\ (\A i \in 1..Len(layers) : layers[i].kind # "Chain") =>
                  /\ Get(merged.bijection).bijections = layers
                  /\ Len(Get(merged.bijection).bijections) = (Depth(dist) - 1) + 1

C3_Witness ==
    /\ op = "merge_transforms"
    /\ Depth(dist) = 3
    /\ \A i \in 1..3 : LayersInnerFirst(dist)[i].kind # "Chain"
    /\ LayersInnerFirst(dist)[1] # LayersInnerFirst(dist)[3]
    /\ Len(Get(out.val.bijection).bijections) = 3

\* C4: the distribution merge_transforms returns for a nested distribution
\* behaves as the nested one: _sample, _log_prob and _sample_and_log_prob
\* return the same values for the same key, x and condition, and shape and
\* cond_shape are the same.
C4_MergeEquivalent ==
    (op = "merge_transforms" /\ Nested(dist)) =>
        /\ shape(out.val) = shape(dist)
        /\ cond_shape(out.val) = cond_shape(dist)
        /\ \A condition \in PrimConds(dist) :
              /\ \A x \in EventData(dist) :
                    _log_prob(out.val, x, condition) = _log_prob(dist, x, condition)
              /\ \A seed \in Seeds :
                    /\ _sample(out.val, PRNGKey(seed), condition)
                         = _sample(dist, PRNGKey(seed), condition)
                    /\ _sample_and_log_prob(out.val, PRNGKey(seed), condition)
                         = _sample_and_log_prob(dist, PRNGKey(seed), condition)

C4_Witness ==
    /\ op = "merge_transforms"
    /\ Nested(dist)
    /\ ~IsNone(cond_shape(dist))
    /\ out.val # dist
    /\ LayersInnerFirst(dist)[1].kind = "Affine"
    /\ LayersInnerFirst(dist)[2].kind = "Chain"

\* C5: Transformed(base_dist, bijection) fails at construction exactly when
\* the cond_shape of both is not None and they differ; otherwise it
\* succeeds with shape = base_dist.shape and cond_shape None when both are
\* None, else the non-None conditioning shape.
C5_ConstructionCheck ==
    op = "Transformed" =>
        LET base == args.base_dist
            bij == args.bijection
            mismatch == /\ ~IsNone(cond_shape(base))
                        /\ ~IsNone(bij.cond_shape)
                        /\ Get(cond_shape(base)) # Get(bij.cond_shape)
        IN  /\ (out.err # "") <=> mismatch
            /\ mismatch => dist = base
            /\ ~mismatch =>
                  /\ dist = Transformed(base, bij)
                  /\ shape(dist) = shape(base)
                  /\ cond_shape(dist) =
                        IF IsNone(bij.cond_shape) THEN cond_shape(base)
                        ELSE bij.cond_shape
                  /\ (IsNone(bij.cond_shape) /\ IsNone(cond_shape(base)))
                        => IsNone(cond_shape(dist))

C5_Witness ==
    /\ op = "Transformed"
    /\ out.err = "ValueError"
    /\ args.bijection.cond_shape = Some(<<2>>)
    /\ cond_shape(args.base_dist) = Some(<<>>)

PublicOps == {"log_prob", "sample", "sample_and_log_prob"}

SamplingOps == {"sample", "sample_and_log_prob"}

\* The condition is given to an unconditional distribution, or omitted for a
\* conditional one.
PresenceMismatch == IsNone(cond_shape(dist)) # IsNone(args.condition)

\* C6: log_prob, sample and sample_and_log_prob raise when a condition is
\* given to an unconditional distribution or omitted for a conditional one,
\* before any key is derived and before the unbatched primitive is reached.
C6_ConditionPresence ==
    (op \in PublicOps /\ PresenceMismatch) =>
        /\ out.err = "TypeError"
        /\ IsNone(out.val)
        /\ IsNone(out.keys)
        /\ out.traced = <<>>
        /\ out.used = <<>>

C6_Witness ==
    /\ op = "sample"
    /\ IsNone(cond_shape(dist))
    /\ ~IsNone(args.condition)
    /\ out.err = "TypeError"

\* The trailing dimensions of a shape are not the declared core shape.
NotTrailing(shp, core) ==
    Len(shp) < Len(core) \/ SubSeq(shp, Len(shp) - Len(core) + 1, Len(shp)) # core

\* x, or the condition given to a conditional distribution, has trailing
\* dimensions other than shape / cond_shape.
TrailingMismatch ==
    \/ op = "log_prob" /\ NotTrailing(args.x.shape, shape(dist))
    \/ /\ ~IsNone(cond_shape(dist))
       /\ ~IsNone(args.condition)
       /\ NotTrailing(Get(args.condition).shape, Get(cond_shape(dist)))

\* Every traced call of a primitive has the declared core shapes.
TracedAsDeclared ==
    \A i \in 1..Len(out.traced) :
        out.traced[i].shapes = in_shapes(dist, out.traced[i].method)

\* C7 as stated: a primitive is reached with its declared core shapes only,
\* and an x or condition with other trailing dimensions makes the call
\* raise a ValueError without the primitive being invoked.
C7_Original ==
    op \in PublicOps =>
        /\ TracedAsDeclared
        /\ TrailingMismatch => (out.err = "ValueError" /\ out.traced = <<>>)

\* The batch of keys a sampling call asks for is empty.
EmptyKeyBatch ==
    /\ op \in SamplingOps
    /\ ~PresenceMismatch
    /\ prod(args.sample_shape \o leading_cond_shape(dist, args.condition)) = 0

\* C7: a primitive is reached with its declared core shapes only, and an x
\* or condition with other trailing dimensions makes the call raise without
\* the primitive being invoked: a ValueError, unless the check of the
\* condition's presence or the derivation of the keys raised a TypeError
\* before the shapes were looked at.
C7_ShapeContract ==
    op \in PublicOps =>
        /\ TracedAsDeclared
        /\ TrailingMismatch =>
              /\ out.traced = <<>>
              /\ out.used = <<>>
              /\ IsNone(out.val)
              /\ out.err = IF PresenceMismatch \/ EmptyKeyBatch THEN "TypeError"
                           ELSE "ValueError"

C7_Witness ==
    /\ op = "log_prob"
    /\ shape(dist) = <<>>
    /\ cond_shape(dist) = Some(<<2>>)
    /\ ~IsNone(args.condition)
    /\ Get(args.condition).shape = <<3>>
    /\ out.err = "ValueError"
    /\ out.traced = <<>>

\* C8: the array log_prob returns holds no NaN: a batch position where
\* _log_prob is NaN is returned as negative infinity, every other position
\* as _log_prob returned it.
C8_NoNaN ==
    (op = "log_prob" /\ out.err = "") =>
        /\ Len(out.val.data) = Len(out.used)
        /\ Len(out.val.data) = prod(out.val.shape)
        /\ \A p \in 1..Len(out.used) :
              LET raw == _log_prob(dist, out.used[p].first, out.used[p].condition)
              IN  /\ ~LIsNaN(out.val.data[p])
                  /\ out.val.data[p] = IF LIsNaN(raw) THEN LConst(NInf) ELSE raw
        /\ IsNone(cond_shape(dist)) =>
              \A p \in 1..Len(out.used) :
                  out.used[p].first = Block(args.x.data, p - 1, prod(shape(dist)))

C8_Witness ==
    /\ op = "log_prob"
    /\ out.err = ""
    /\ \E p, q \in 1..Len(out.used) :
          /\ LIsNaN(_log_prob(dist, out.used[p].first, out.used[p].condition))
          /\ out.val.data[p] = LConst(NInf)
          /\ IsFinite(out.val.data[q].lin)

\* The condition is one the distribution accepts: None for an unconditional
\* distribution, else an array whose trailing dimensions are cond_shape.
ValidCondition ==
    IF IsNone(cond_shape(dist)) THEN IsNone(args.condition)
    ELSE /\ ~IsNone(args.condition)
         /\ ~NotTrailing(Get(args.condition).shape, Get(cond_shape(dist)))

\* C9 as stated: for every sample_shape of non-negative integers and every
\* valid condition, sample returns an array of shape
\* sample_shape + leading condition batch shape + shape.
C9_SampleShape ==
    (op = "sample" /\ ValidCondition) =>
        /\ out.err = ""
        /\ out.val.shape = args.sample_shape
                             \o leading_cond_shape(dist, args.condition)
                             \o shape(dist)

\* sample raises for an empty batch of samples.
C9_Witness ==
    /\ op = "sample"
    /\ ValidCondition
    /\ args.sample_shape = <<0>>
    /\ out.err = "TypeError"

\* Within one sampling call every batch position is produced, by the
\* primitive, from its own row of the keys derived from the input key, and no
\* two positions have the same row.
DistinctSubKeys ==
    (op \in SamplingOps /\ out.err = "") =>
        LET samples == IF op = "sample" THEN out.val ELSE out.val[1]
            size == prod(shape(dist))
        IN  /\ Len(out.used) = prod(Leading(samples.shape, ndim(dist)))
            /\ Len(out.used) = prod(Leading(Get(out.keys).shape, 1))
            /\ \A p \in 1..Len(out.used) :
                  /\ out.used[p].first = Block(Get(out.keys).data, p - 1, 2)
                  /\ Block(samples.data, p - 1, size)
                       = _sample(dist, out.used[p].first, out.used[p].condition)
            /\ \A p, q \in 1..Len(out.used) :
                  p # q => out.used[p].first # out.used[q].first

\* A sampling call repeated with the same key, sample_shape and condition.
SameCall ==
    /\ op \in SamplingOps
    /\ op' = op
    /\ args' = args
    /\ dist' = dist

SubKeysUnder(sample_shape) ==
    LET r == sample_with(dist, IF op = "sample" THEN "_sample" ELSE "_sample_and_log_prob",
                         args.key, sample_shape, args.condition, args.partitionable)
    IN  {r.used[p].first : p \in 1..Len(r.used)}

\* C11 as stated: with the key held fixed, no sub-key handed to the primitive
\* under one sample_shape is handed to it under a different sample_shape.
C11_ShapeChangesKeys ==
    (op \in SamplingOps /\ out.err = "") =>
        \A other \in BatchShapes \ {args.sample_shape} :
            {out.used[p].first : p \in 1..Len(out.used)} \cap SubKeysUnder(other) = {}

\* sample_shape (1,) hands the primitive the sub-key that sample_shape ()
\* hands it.
C11_Witness ==
    /\ op = "sample"
    /\ out.err = ""
    /\ args.sample_shape = <<1>>
    /\ Len(out.used) = 1
    /\ SubKeysUnder(<<>>) = {out.used[1].first}

\* C12: for every bijection of affine.py, every x of its shape and every
\* valid condition c, inverse(transform(x, c), c) = x and
\* transform(inverse(x, c), c) = x.
C12_InverseLaw ==
    /\ op = "transform" =>
          inverse(args.bijection, out.val, args.condition) = args.x
    /\ op = "inverse" =>
          transform(args.bijection, out.val, args.condition) = args.y

C12_Witness ==
    /\ op = "inverse"
    /\ args.bijection.kind = "TriangularAffine"
    /\ ~args.bijection.lower
    /\ out.val # args.y
    /\ \A i \in 1..Len(out.val) : IsFinite(out.val[i]) /\ out.val[i] # R(0)

\* C13: for every bijection of affine.py the log-determinant of
\* transform_and_log_det(x, c) is the negative of the log-determinant of
\* inverse_and_log_det(transform(x, c), c); the first components of
\* transform_and_log_det and inverse_and_log_det are transform(x, c) and
\* inverse(y, c); the log-determinant of Loc and AdditiveCondition is zero.
C13_LogDetConsistent ==
    /\ op = "transform_and_log_det" =>
          /\ out.val[1] = transform(args.bijection, args.x, args.condition)
          /\ out.val[2] =
                LNeg(inverse_and_log_det(args.bijection, out.val[1], args.condition)[2])
          /\ args.bijection.kind \in {"Loc", "AdditiveCondition"} => out.val[2] = LZero
    /\ op = "inverse_and_log_det" =>
          /\ out.val[1] = inverse(args.bijection, args.y, args.condition)
          /\ LNeg(out.val[2]) =
                transform_and_log_det(args.bijection, out.val[1], args.condition)[2]
          /\ args.bijection.kind \in {"Loc", "AdditiveCondition"} => out.val[2] = LZero

C13_Witness ==
    /\ op = "transform_and_log_det"
    /\ args.bijection.kind = "TriangularAffine"
    /\ out.val[2] # LZero
    /\ IsFinite(out.val[2].lin)
    /\ out.val[2] = [lin |-> R(0), lg |-> R(8), npi |-> 0]

\* Some element of minval, after broadcasting, is greater than maxval's.
SomeMinAboveMax ==
    LET shp == Get(BroadcastShapes(args.minval.shape, args.maxval.shape))
        lo == BroadcastData(args.minval, shp)
        hi == BroadcastData(args.maxval, shp)
    IN  \E i \in 1..prod(shp) : RGe(lo[i], hi[i]) /\ lo[i] # hi[i]

\* The constructor raised before it built a base distribution or bijection.
FailedBeforeBuilding == out.err # "" /\ IsNone(out.val) /\ out.traced = <<>>

\* C14 as stated: Uniform(minval, maxval) fails at construction, before any
\* base distribution or bijection is built, whenever some element has
\* minval > maxval, and succeeds when maxval >= minval for every element.
C14_Original ==
    op = "Uniform" =>
        /\ SomeMinAboveMax => FailedBeforeBuilding
        /\ ~SomeMinAboveMax => (out.err = "" /\ ~IsNone(out.val))

\* C14: constructed eagerly, Uniform(minval, maxval) fails before any base
\* distribution or bijection is built whenever some element has
\* minval > maxval and succeeds when maxval >= minval for every element;
\* traced under jit without checkify it raises whatever the bounds are;
\* inside checkify.checkify it builds the distribution in every case and a
\* failed check is recorded in the returned error value only.
C14_UniformDomainCheck ==
    op = "Uniform" =>
        /\ args.mode = "eager" =>
              /\ SomeMinAboveMax => FailedBeforeBuilding
              /\ ~SomeMinAboveMax =>
                    (out.err = "" /\ ~IsNone(out.val) /\ out.deferred = "")
        /\ args.mode = "jit" => FailedBeforeBuilding
        /\ args.mode = "checkify" =>
              /\ out.err = ""
              /\ ~IsNone(out.val)
              /\ (out.deferred # "") <=> SomeMinAboveMax

C14_Witness ==
    /\ op = "Uniform"
    /\ args.mode = "eager"
    /\ args.minval = Arr(<<2>>, <<R(0), R(3)>>)
    /\ args.maxval = Arr(<<>>, <<R(2)>>)
    /\ out.err = "JaxRuntimeError"
    /\ out.traced = <<>>

\* C15 as stated: a SpecializeCondition built from a conditional
\* distribution and a condition of shape dist.cond_shape constructs
\* successfully, has cond_shape None and shape dist.shape, and its primitives
\* return what dist's primitives return for the stored condition, whatever
\* condition is passed; a condition of another shape is rejected with a
\* ValueError at construction.
C15_SpecializeCondition ==
    op = "SpecializeCondition" =>
        IF Some(Get(args.condition).shape) = cond_shape(args.dist)
        THEN /\ out.err = ""
             /\ ~IsNone(out.val)
             /\ LET s == Get(out.val)
                    stored == Some(Get(args.condition).data)
                IN  /\ s.cond_shape = None
                    /\ s.shape = shape(args.dist)
                    /\ \A passed \in {None} \cup PrimConds(args.dist) :
                          /\ \A x \in EventData(args.dist) :
                                SpecializeCondition_log_prob(s, x, passed)
                                  = _log_prob(args.dist, x, stored)
                          /\ \A seed \in Seeds :
                                /\ SpecializeCondition_sample(s, PRNGKey(seed), passed)
                                     = _sample(args.dist, PRNGKey(seed), stored)
                                /\ SpecializeCondition_sample_and_log_prob(
                                       s, PRNGKey(seed), passed)
                                     = _sample_and_log_prob(args.dist, PRNGKey(seed),
                                                            stored)
        ELSE out.err = "ValueError"

\* The construction raises for a condition of the distribution's cond_shape.
C15_Witness ==
    /\ op = "SpecializeCondition"
    /\ Some(Get(args.condition).shape) = cond_shape(args.dist)
    /\ out.err = "AttributeError"
    /\ IsNone(out.val)

\* C16 as stated: for every sample_shape, zero-length dimensions included,
\* and every valid condition, _get_sample_keys splits the key into
\* max(1, prod(key_shape)) sub-keys, key_shape being sample_shape + the
\* condition's leading shape, and returns them as an array of shape
\* key_shape + (2,) without error.
C16_SampleKeys ==
    (op \in SamplingOps /\ ValidCondition) =>
        LET key_shape == args.sample_shape \o leading_cond_shape(dist, args.condition)
            split_keys == split(args.key, Max(1, prod(key_shape)), args.partitionable)
        IN  /\ split_keys.shape = <<Max(1, prod(key_shape)), 2>>
            /\ ~IsNone(out.keys)
            /\ Get(out.keys).shape = key_shape \o <<2>>
            /\ Get(out.keys).data = split_keys.data

\* No array of keys is returned for a sample_shape with a zero-length
\* dimension.
C16_Witness ==
    /\ op = "sample_and_log_prob"
    /\ ValidCondition
    /\ args.sample_shape = <<0>>
    /\ IsNone(out.keys)
    /\ out.err = "TypeError"
    /\ _get_sample_keys(dist, args.key, args.sample_shape, args.condition,
                        args.partitionable).err = "TypeError"

\* The keys of a sampling call are mapped over: call p of the primitive
\* receives row p of the array of keys, one call per row.
KeysMappedOver ==
    /\ Len(out.used) = prod(Leading(Get(out.keys).shape, 1))
    /\ \A p \in 1..Len(out.used) :
          out.used[p].first = Block(Get(out.keys).data, p - 1, 2)

\* C17 as stated: for an unconditional distribution the argument _vectorize
\* excludes from broadcasting is the key, handed to the primitive as it is;
\* for a conditional distribution nothing is excluded and the leading
\* dimensions of keys and condition are broadcast against each other.
C17_Original ==
    (op \in SamplingOps /\ out.err = "") =>
        IF IsNone(cond_shape(dist))
        THEN /\ excluded(dist) = {0}
             /\ \A p \in 1..Len(out.used) : out.used[p].first = Get(out.keys).data
        ELSE /\ excluded(dist) = {}
             /\ KeysMappedOver

\* C17: for an unconditional distribution the argument _vectorize excludes
\* from broadcasting is the condition (position 1, which is None): every
\* call of the primitive receives it as it is, and the keys are mapped over
\* their leading dimensions; for a conditional distribution nothing is
\* excluded and the leading dimensions of keys and condition are broadcast
\* against each other, each call receiving its row of keys and the
\* condition of its position.
C17_VectorizeExcluded ==
    (op \in SamplingOps /\ out.err = "") =>
        /\ KeysMappedOver
        /\ IF IsNone(cond_shape(dist))
           THEN /\ excluded(dist) = {1}
                /\ Len(out.used) = prod(args.sample_shape)
                /\ \A p \in 1..Len(out.used) : out.used[p].condition = args.condition
           ELSE LET lead == leading_cond_shape(dist, args.condition)
                    size == prod(Get(cond_shape(dist)))
                IN  /\ excluded(dist) = {}
                    /\ Len(out.used) = prod(args.sample_shape) * prod(lead)
                    /\ \A p \in 1..Len(out.used) :
                          out.used[p].condition
                            = Some(Block(Get(args.condition).data,
                                         (p - 1) % prod(lead), size))

C17_Witness ==
    /\ op = "sample"
    /\ out.err = ""
    /\ IsNone(cond_shape(dist))
    /\ args.sample_shape = <<2>>
    /\ Len(out.used) = 2
    /\ out.used[1].first # out.used[2].first
    /\ out.used[1].first # Get(out.keys).data
    /\ IsNone(out.used[2].condition)

\* C18: merge_transforms returns the receiver itself when base_dist is not
\* transformed, so merging the result of a merge returns that result again;
\* in every case the receiver, with its base_dist, bijection and nested
\* distributions, is as it was before the call.
C18_MergeIdempotent ==
    op = "merge_transforms" =>
        /\ dist = args.self
        /\ merge_transforms_returns_self(args.self) => out.val = args.self
        /\ ~merge_transforms_returns_self(args.self) => out.val # args.self
        /\ merge_transforms_returns_self(out.val)
        /\ merge_transforms(out.val) = out.val

C18_Witness ==
    /\ op = "merge_transforms"
    /\ Depth(dist) = 1
    /\ Get(dist.bijection).kind = "Affine"
    /\ out.val = dist

====
